---- MODULE Spec2Model ----
(***************************************************************************)
(* Model of mongo-repair-utf8 (src/src/main.rs): the record loop of main,  *)
(* the recursive walk of fix_document over a raw BSON buffer, and the      *)
(* repair of fix_string.  Documents are byte sequences laid out as the     *)
(* BSON format lays them out; the walk reads them through the element      *)
(* iterator and rebuilds a fresh buffer with append.                       *)
(***************************************************************************)
EXTENDS Integers, Sequences, FiniteSets, TLC

VARIABLES
    cursor,     \* records the find() cursor has still to yield
    confirm,    \* options.confirm.unwrap_or(false)
    pc,         \* position of main: "next", "walk", "confirm", "compare", "done", "error"
    raw_doc,    \* the record main is working on
    stack,      \* call stack of fix_document frames and their array loops
    fix,        \* locals of the fix_string call waiting for its confirmation
    new_raw_doc,\* the document fix_document returned to main
    out,        \* lines printed for the current run
    writes,     \* replace calls issued to the store
    err         \* why the run ended with an error

vars == <<cursor, confirm, pc, raw_doc, stack, fix, new_raw_doc, out, writes, err>>

----------------------------------------------------------------------------
(* Bounds of the model *)

MaxNodes == 3       \* elements (at any depth) in the whole result set
MaxRecords == 2     \* records in the result set
MaxStrLen == 3      \* bytes of a text payload in a one-field record

----------------------------------------------------------------------------
(* Byte helpers *)

RECURSIVE Concat(_)
Concat(ss) == IF ss = <<>> THEN <<>> ELSE Head(ss) \o Concat(Tail(ss))

Slice(b, from, to) == \* Rust's &b[from..to], 0-based, to exclusive
    SubSeq(b, from + 1, to)

At(b, i) == b[i + 1]  \* Rust's b[i], 0-based

LE32(n) == \* i32::to_le_bytes
    << n % 256, (n \div 256) % 256, (n \div 65536) % 256, (n \div 16777216) % 256 >>

ReadI32(b, off) == \* i32::from_le_bytes of b[off..off+4]
    At(b, off) + 256 * At(b, off + 1) + 65536 * At(b, off + 2) + 16777216 * At(b, off + 3)

----------------------------------------------------------------------------
(* Text: UTF-8 validation, lossy decoding, UTF-16 decoding *)

IsCont(x) == x >= 128 /\ x <= 191

\* The chunk of s that starts at index i (1-based): a well-formed scalar
\* value (ok) of len bytes, or a maximal ill-formed prefix of len bytes.
Utf8Chunk(s, i) ==
    LET n == Len(s)
        b0 == s[i]
        has(k) == i + k <= n
        b(k) == s[i + k]
        second_ok ==
            has(1) /\ (CASE b0 = 224 -> b(1) >= 160 /\ b(1) <= 191
                         [] b0 = 237 -> b(1) >= 128 /\ b(1) <= 159
                         [] b0 = 240 -> b(1) >= 144 /\ b(1) <= 191
                         [] b0 = 244 -> b(1) >= 128 /\ b(1) <= 143
                         [] OTHER -> IsCont(b(1)))
    IN  IF b0 < 128 THEN [ok |-> TRUE, len |-> 1]
        ELSE IF b0 >= 194 /\ b0 <= 223 THEN
            IF has(1) /\ IsCont(b(1)) THEN [ok |-> TRUE, len |-> 2]
            ELSE [ok |-> FALSE, len |-> 1]
        ELSE IF b0 >= 224 /\ b0 <= 239 THEN
            IF ~second_ok THEN [ok |-> FALSE, len |-> 1]
            ELSE IF has(2) /\ IsCont(b(2)) THEN [ok |-> TRUE, len |-> 3]
            ELSE [ok |-> FALSE, len |-> 2]
        ELSE IF b0 >= 240 /\ b0 <= 244 THEN
            IF ~second_ok THEN [ok |-> FALSE, len |-> 1]
            ELSE IF ~(has(2) /\ IsCont(b(2))) THEN [ok |-> FALSE, len |-> 2]
            ELSE IF has(3) /\ IsCont(b(3)) THEN [ok |-> TRUE, len |-> 4]
            ELSE [ok |-> FALSE, len |-> 3]
        ELSE [ok |-> FALSE, len |-> 1]

RECURSIVE Utf8ValidFrom(_, _)
Utf8ValidFrom(s, i) ==
    IF i > Len(s) THEN TRUE
    ELSE LET c == Utf8Chunk(s, i) IN c.ok /\ Utf8ValidFrom(s, i + c.len)

Utf8Valid(s) == Utf8ValidFrom(s, 1)   \* std::str::from_utf8(s).is_ok()

Replacement == <<239, 191, 189>>      \* U+FFFD in UTF-8

RECURSIVE Utf8LossyFrom(_, _)
Utf8LossyFrom(s, i) ==
    IF i > Len(s) THEN <<>>
    ELSE LET c == Utf8Chunk(s, i)
         IN  (IF c.ok THEN SubSeq(s, i, i + c.len - 1) ELSE Replacement)
                 \o Utf8LossyFrom(s, i + c.len)

\* String::from_utf8_lossy(s).to_string(): the bytes of the resulting String
from_utf8_lossy(s) == Utf8LossyFrom(s, 1)

\* char::encode_utf8
EncodeUtf8(cp) ==
    IF cp < 128 THEN <<cp>>
    ELSE IF cp < 2048 THEN <<192 + (cp \div 64), 128 + (cp % 64)>>
    ELSE IF cp < 65536 THEN
        <<224 + (cp \div 4096), 128 + ((cp \div 64) % 64), 128 + (cp % 64)>>
    ELSE <<240 + (cp \div 262144), 128 + ((cp \div 4096) % 64),
           128 + ((cp \div 64) % 64), 128 + (cp % 64)>>

IsHighSurrogate(u) == u >= 55296 /\ u <= 56319
IsLowSurrogate(u) == u >= 56320 /\ u <= 57343

\* char::decode_utf16 with the replacement character for unpaired surrogates
RECURSIVE DecodeUtf16Lossy(_)
DecodeUtf16Lossy(us) ==
    IF us = <<>> THEN <<>>
    ELSE LET u == Head(us) IN
        IF IsHighSurrogate(u) /\ Len(us) >= 2 /\ IsLowSurrogate(us[2])
        THEN <<65536 + (u - 55296) * 1024 + (us[2] - 56320)>>
                 \o DecodeUtf16Lossy(Tail(Tail(us)))
        ELSE IF IsHighSurrogate(u) \/ IsLowSurrogate(u)
        THEN <<65533>> \o DecodeUtf16Lossy(Tail(us))
        ELSE <<u>> \o DecodeUtf16Lossy(Tail(us))

\* String::from_utf16_lossy(us): the bytes of the resulting String
from_utf16_lossy(us) ==
    LET cps == DecodeUtf16Lossy(us)
    IN  Concat([i \in 1..Len(cps) |-> EncodeUtf8(cps[i])])

\* a sign extension instead, as of a byte read as i8
AsU16_SignExtended(v) == IF v >= 128 THEN 65280 + v ELSE v

\* raw_value.into_iter().map(|v| *v as u16): zero extension of each byte
AsU16(v) == v % 65536

----------------------------------------------------------------------------
(* The BSON layout, as the raw element iterator reads it *)

TagString == 2      \* ElementType::String
TagDocument == 3    \* ElementType::EmbeddedDocument
TagArray == 4       \* ElementType::Array
TagInt32 == 16      \* ElementType::Int32, one of the kinds copied by value

RECURSIVE CStrLen(_, _)
CStrLen(b, off) == \* length of the null-terminated key that starts at off
    IF At(b, off) = 0 THEN 0 ELSE 1 + CStrLen(b, off + 1)

\* the length of a value from its declared length, never from its payload
ValueSize(b, off, kind) ==
    CASE kind = TagString -> 4 + ReadI32(b, off)
      [] kind = TagDocument -> ReadI32(b, off)
      [] kind = TagArray -> ReadI32(b, off)
      [] kind = TagInt32 -> 4

\* the RawElement the iterator yields for the element whose tag is at off
ElementAt(b, off) ==
    LET klen == CStrLen(b, off + 1)
        voff == off + 1 + klen + 1
    IN  [ kind |-> At(b, off),
          key |-> Slice(b, off + 1, off + 1 + klen),
          start_at |-> voff,
          size |-> ValueSize(b, voff, At(b, off)) ]

IterDone(b, off) == off = Len(b) - 1  \* the iterator stands on the terminator

IterNext(b, off) == \* offset of the next element's tag
    LET e == ElementAt(b, off) IN e.start_at + e.size

RECURSIVE ElementsFrom(_, _)
ElementsFrom(b, off) ==
    IF IterDone(b, off) THEN <<>>
    ELSE <<ElementAt(b, off)>> \o ElementsFrom(b, IterNext(b, off))

Elements(b) == ElementsFrom(b, 4)     \* doc.iter_elements()

\* elem.value(): the typed value, or the UTF-8 error of a text payload
Value(b, e) ==
    LET v == Slice(b, e.start_at, e.start_at + e.size)
        text == Slice(b, e.start_at + 4, e.start_at + e.size - 1)
    IN  CASE e.kind = TagString ->
               [ok |-> Utf8Valid(text), kind |-> e.kind, int |-> 0, bytes |-> text]
          [] e.kind = TagInt32 ->
               [ok |-> TRUE, kind |-> e.kind, int |-> ReadI32(b, e.start_at), bytes |-> <<>>]
          [] OTHER ->
               [ok |-> TRUE, kind |-> e.kind, int |-> 0, bytes |-> v]

\* RawBson::String(s) as append writes it
StringValue(s) == LE32(Len(s) + 1) \o s \o <<0>>

\* value.to_raw_bson() as append writes it
to_raw_bson(v) ==
    CASE v.kind = TagString -> StringValue(v.bytes)
      [] v.kind = TagInt32 -> LE32(v.int)
      [] OTHER -> v.bytes

EmptyDoc == LE32(5) \o <<0>>          \* RawDocumentBuf::new()

\* new_doc.append(key, value): the terminator becomes the tag, the element
\* and a new terminator follow, the length header is rewritten
append(d, kind, key, val) ==
    LET body == Slice(d, 4, Len(d) - 1) \o <<kind>> \o key \o <<0>> \o val \o <<0>>
    IN  LE32(4 + Len(body)) \o body

RECURSIVE Decimal(_)
Decimal(n) == \* n.to_string() as bytes
    IF n < 10 THEN <<48 + n>> ELSE Decimal(n \div 10) \o <<48 + (n % 10)>>

\* new_array.push(value): append under the next index
push(a, kind, val) == append(a, kind, Decimal(Len(Elements(a))), val)

\* doc.get(key): the first element with that key
Get(b, key) ==
    LET es == Elements(b)
        hits == {i \in 1..Len(es) : es[i].key = key}
        first == CHOOSE i \in hits : \A j \in hits : i <= j
    IN  IF hits = {} THEN [ok |-> FALSE, kind |-> 0, int |-> 0, bytes |-> <<>>]
        ELSE Value(b, es[first])

\* doc.get_document(key)
get_document(b, key) ==
    LET v == Get(b, key) IN [ok |-> v.ok /\ v.kind = TagDocument, bytes |-> v.bytes]

\* doc.get_array(key)
get_array(b, key) ==
    LET v == Get(b, key) IN [ok |-> v.ok /\ v.kind = TagArray, bytes |-> v.bytes]

----------------------------------------------------------------------------
(* The result sets the run may meet *)

Keys == { <<97>>, <<98, 99>> }                  \* "a", "bc"
TextSamples == { <<65>>, <<193, 238>> }         \* "A"; 0xC1 0xEE, not UTF-8
PayloadBytes == { 65, 129, 193, 195, 238 }

LeafVals ==
    { [kind |-> TagInt32, enc |-> LE32(7)] }
        \cup { [kind |-> TagString, enc |-> StringValue(p)] : p \in TextSamples }

RECURSIVE BuildDoc(_)
BuildDoc(es) == \* a document with the elements es, in order
    IF es = <<>> THEN EmptyDoc
    ELSE LET e == es[Len(es)]
         IN  append(BuildDoc(SubSeq(es, 1, Len(es) - 1)), e.kind, e.key, e.enc)

BuildArr(vs) == BuildDoc([i \in 1..Len(vs) |->
                    [key |-> Decimal(i - 1), kind |-> vs[i].kind, enc |-> vs[i].enc]])

RECURSIVE Vals(_), ElemSeqs(_), ItemSeqs(_)
\* values, element lists and item lists of exactly n elements in all
Vals(n) ==
    (IF n = 1 THEN LeafVals ELSE {})
        \cup { [kind |-> TagDocument, enc |-> BuildDoc(es)] : es \in ElemSeqs(n - 1) }
        \cup { [kind |-> TagArray, enc |-> BuildArr(vs)] : vs \in ItemSeqs(n - 1) }
ElemSeqs(n) ==
    IF n = 0 THEN { <<>> }
    ELSE UNION { { <<[key |-> k, kind |-> v.kind, enc |-> v.enc]>> \o r :
                     k \in Keys, v \in Vals(j), r \in ElemSeqs(n - j) } : j \in 1..n }
ItemSeqs(n) ==
    IF n = 0 THEN { <<>> }
    ELSE UNION { { <<v>> \o r : v \in Vals(j), r \in ItemSeqs(n - j) } : j \in 1..n }

Records(n) == \* the records of at most n elements in all
    UNION { { BuildDoc(es) : es \in ElemSeqs(m) } : m \in 0..n }

RECURSIVE StreamsOf(_, _)
StreamsOf(n, r) == \* result sets of at most r records and exactly n elements in all
    (IF n = 0 THEN { <<>> } ELSE {})
        \cup (IF r = 0 THEN {}
              ELSE UNION { { <<BuildDoc(es)>> \o s :
                               es \in ElemSeqs(j), s \in StreamsOf(n - j, r - 1) } : j \in 0..n })

Streams(n, r) == \* result sets of at most r records and n elements in all
    UNION { StreamsOf(m, r) : m \in 0..n }

RECURSIVE Payloads(_)
Payloads(n) == \* byte strings of length 1..n over PayloadBytes
    IF n = 0 THEN {} ELSE
    { <<x>> : x \in PayloadBytes }
        \cup { <<x>> \o p : x \in PayloadBytes, p \in Payloads(n - 1) }

TextRecords(n) == \* one record with one text field of at most n bytes
    { << BuildDoc(<<[key |-> k, kind |-> TagString, enc |-> StringValue(p)]>>) >> :
        k \in Keys, p \in Payloads(n) }

OneRecord(n) == { <<d>> : d \in Records(n) }  \* one record of at most n elements

----------------------------------------------------------------------------
(* fix_string *)

SliceOk(b, from, to) == from <= to /\ to <= Len(b) \* &b[from..to] does not panic

KeyStart(start) == start + 4 + 1

ValueStart(start, key) == KeyStart(start) + Len(key)

RawKey(bytes, key, start) == Slice(bytes, KeyStart(start), KeyStart(start) + Len(key))

RawValue(bytes, key, elem, start) ==
    Slice(bytes, ValueStart(start, key) + 4 + 1, ValueStart(start, key) + elem.size)

\* value_utf16, new_value_utf8_bytes, new_value_utf8
Repair(raw_value) ==
    from_utf8_lossy(from_utf16_lossy([i \in 1..Len(raw_value) |-> AsU16(raw_value[i])]))

\* whether fix_string gets past its two slices and its assert_eq!
FixStringRuns(bytes, key, elem, start) ==
    /\ SliceOk(bytes, KeyStart(start), KeyStart(start) + Len(key))
    /\ key = from_utf8_lossy(RawKey(bytes, key, start))
    /\ SliceOk(bytes, ValueStart(start, key) + 4 + 1, ValueStart(start, key) + elem.size)

FixLocals(bytes, key, elem, start) ==
    LET raw_value == RawValue(bytes, key, elem, start)
    IN  [ key |-> key,
          raw_key |-> RawKey(bytes, key, start),
          raw_value |-> raw_value,
          old_value_utf8 |-> from_utf8_lossy(raw_value),
          new_value_utf8 |-> Repair(raw_value) ]

NoFix == [ key |-> <<>>, raw_key |-> <<>>, raw_value |-> <<>>,
           old_value_utf8 |-> <<>>, new_value_utf8 |-> <<>> ]

\* a decline that hands back the bytes as they were
Chosen_RawOnDecline(f, confirmation) ==
    IF confirmation THEN f.new_value_utf8 ELSE f.raw_value

\* what fix_string returns for the answer to its prompt
Chosen(f, confirmation) == IF confirmation THEN f.new_value_utf8 ELSE f.old_value_utf8

----------------------------------------------------------------------------
(* fix_document, one loop iteration at a time *)

NewFrame(kind, doc) ==
    [kind |-> kind, doc |-> doc, off |-> 4, start |-> 0, new_doc |-> EmptyDoc]

Top == stack[Len(stack)]
Elem == ElementAt(Top.doc, Top.off)
Parent == stack[Len(stack) - 1]
ParentElem == ElementAt(Parent.doc, Parent.off)

\* a running length that forgets the key's terminator
NextStart_NoTerminator(start, key, elem) == start + 1 + Len(key) + elem.size

NextStart(start, key, elem) == start + 1 + Len(key) + 1 + elem.size

\* the frame after its current element was handled and new_doc became nd
Advance(f, nd) ==
    LET e == ElementAt(f.doc, f.off)
    IN  [f EXCEPT !.new_doc = nd,
                  !.off = IterNext(f.doc, f.off),
                  !.start = IF f.kind = "doc" THEN NextStart(@, e.key, e) ELSE @]

ReplaceTop(st, f) == [st EXCEPT ![Len(st)] = f]
Pop(st) == SubSeq(st, 1, Len(st) - 1)

InLoop(kind) == pc = "walk" /\ stack # <<>> /\ Top.kind = kind /\ ~IterDone(Top.doc, Top.off)
AtEnd(kind) == pc = "walk" /\ stack # <<>> /\ Top.kind = kind /\ IterDone(Top.doc, Top.off)

\* an Err that `?` carries out of every fix_document frame and out of main
Propagate(why) ==
    /\ pc' = "error"
    /\ err' = why
    /\ stack' = <<>>

EmbeddedDocument ==
    /\ InLoop("doc")
    /\ Elem.kind = TagDocument
    /\ LET subdoc == get_document(Top.doc, Elem.key)
       IN  IF subdoc.ok
           THEN /\ stack' = Append(stack, NewFrame("doc", subdoc.bytes))
                /\ UNCHANGED <<pc, err>>
           ELSE Propagate("record")
    /\ UNCHANGED <<cursor, confirm, raw_doc, fix, new_raw_doc, out, writes>>

ReturnToDocument ==
    /\ AtEnd("doc")
    /\ Len(stack) > 1
    /\ Parent.kind = "doc"
    /\ stack' = ReplaceTop(Pop(stack),
                    Advance(Parent, append(Parent.new_doc, TagDocument, ParentElem.key, Top.new_doc)))
    /\ UNCHANGED <<cursor, confirm, pc, raw_doc, fix, new_raw_doc, out, writes, err>>

ArrayElement ==
    /\ InLoop("doc")
    /\ Elem.kind = TagArray
    /\ LET array == get_array(Top.doc, Elem.key)
       IN  IF array.ok
           THEN /\ stack' = Append(stack, NewFrame("arr", array.bytes))
                /\ UNCHANGED <<pc, err>>
           ELSE Propagate("record")
    /\ UNCHANGED <<cursor, confirm, raw_doc, fix, new_raw_doc, out, writes>>

ArrayItemDocument ==
    /\ InLoop("arr")
    /\ Elem.kind = TagDocument
    /\ stack' = Append(stack, NewFrame("doc", Value(Top.doc, Elem).bytes))
    /\ UNCHANGED <<cursor, confirm, pc, raw_doc, fix, new_raw_doc, out, writes, err>>

ReturnToArray ==
    /\ AtEnd("doc")
    /\ Len(stack) > 1
    /\ Parent.kind = "arr"
    /\ stack' = ReplaceTop(Pop(stack),
                    Advance(Parent, push(Parent.new_doc, TagDocument, Top.new_doc)))
    /\ UNCHANGED <<cursor, confirm, pc, raw_doc, fix, new_raw_doc, out, writes, err>>

ArrayItemOther ==
    /\ InLoop("arr")
    /\ Elem.kind # TagDocument
    /\ LET item == Value(Top.doc, Elem)
       IN  IF item.ok
           THEN /\ stack' = ReplaceTop(stack,
                                Advance(Top, push(Top.new_doc, item.kind, to_raw_bson(item))))
                /\ UNCHANGED <<pc, err>>
           ELSE Propagate("record")
    /\ UNCHANGED <<cursor, confirm, raw_doc, fix, new_raw_doc, out, writes>>

ArrayDone ==
    /\ AtEnd("arr")
    /\ stack' = ReplaceTop(Pop(stack),
                    Advance(Parent, append(Parent.new_doc, TagArray, ParentElem.key, Top.new_doc)))
    /\ UNCHANGED <<cursor, confirm, pc, raw_doc, fix, new_raw_doc, out, writes, err>>

\* a text element whose value is a UTF-8 error: fix_string up to its prompt
StringInvalid ==
    /\ InLoop("doc")
    /\ Elem.kind = TagString
    /\ ~Value(Top.doc, Elem).ok
    /\ IF FixStringRuns(Top.doc, Elem.key, Elem, Top.start)
       THEN /\ fix' = FixLocals(Top.doc, Elem.key, Elem, Top.start)
            /\ pc' = "confirm"
            /\ UNCHANGED <<stack, err>>
       ELSE /\ Propagate("panic")
            /\ fix' = fix
    /\ UNCHANGED <<cursor, confirm, raw_doc, new_raw_doc, out, writes>>

PromptLine(f) == [line |-> "prompt", key |-> f.key,
                  old |-> f.old_value_utf8, new |-> f.new_value_utf8]

\* the answer to the prompt (true when confirm is off), and the append of the result
Confirmation ==
    /\ pc = "confirm"
    /\ \E confirmation \in (IF confirm THEN BOOLEAN ELSE {TRUE}) :
        /\ stack' = ReplaceTop(stack,
                        Advance(Top, append(Top.new_doc, TagString, Elem.key,
                                            StringValue(Chosen(fix, confirmation)))))
        /\ out' = IF confirmation THEN Append(out, PromptLine(fix)) ELSE out
    /\ pc' = "walk"
    /\ fix' = NoFix
    /\ UNCHANGED <<cursor, confirm, raw_doc, new_raw_doc, writes, err>>

\* text that validates, and every other kind: copied by value
CopyValue ==
    /\ InLoop("doc")
    /\ Elem.kind \notin {TagDocument, TagArray}
    /\ Value(Top.doc, Elem).ok
    /\ stack' = ReplaceTop(stack,
                    Advance(Top, append(Top.new_doc, Elem.kind, Elem.key,
                                        to_raw_bson(Value(Top.doc, Elem)))))
    /\ UNCHANGED <<cursor, confirm, pc, raw_doc, fix, new_raw_doc, out, writes, err>>

----------------------------------------------------------------------------
(* main: the record loop *)

ObjectIdHex(doc) == \* get_object_id("_id").ok().map(to_hex), "" when there is none
    LET v == Get(doc, <<95, 105, 100>>) IN IF v.ok /\ v.kind = 7 THEN v.bytes ELSE <<>>

IdLine(doc) == [line |-> "id", key |-> ObjectIdHex(doc), old |-> <<>>, new |-> <<>>]

NextRecord ==
    /\ pc = "next"
    /\ cursor # <<>>
    /\ raw_doc' = Head(cursor)
    /\ cursor' = Tail(cursor)
    /\ new_raw_doc' = EmptyDoc
    /\ out' = Append(out, IdLine(Head(cursor)))
    /\ stack' = <<NewFrame("doc", Head(cursor))>>
    /\ pc' = "walk"
    /\ UNCHANGED <<confirm, fix, writes, err>>

CursorError ==
    /\ pc = "next"
    /\ pc' = "error"
    /\ err' = "cursor"
    /\ UNCHANGED <<cursor, confirm, raw_doc, stack, fix, new_raw_doc, out, writes>>

ReturnToMain ==
    /\ AtEnd("doc")
    /\ Len(stack) = 1
    /\ new_raw_doc' = Top.new_doc
    /\ stack' = <<>>
    /\ pc' = "compare"
    /\ UNCHANGED <<cursor, confirm, raw_doc, fix, out, writes, err>>

Finish ==
    /\ pc = "next"
    /\ cursor = <<>>
    /\ pc' = "done"
    /\ UNCHANGED <<cursor, confirm, raw_doc, stack, fix, new_raw_doc, out, writes, err>>

\* the state main is in once it holds the cursor over one of the result sets
Start(sets) ==
    /\ cursor \in sets
    /\ confirm \in BOOLEAN
    /\ pc = "next"
    /\ raw_doc = <<>>
    /\ stack = <<>>
    /\ fix = NoFix
    /\ new_raw_doc = EmptyDoc
    /\ out = <<>>
    /\ writes = <<>>
    /\ err = "none"

Init == Start(Streams(MaxNodes, MaxRecords) \cup TextRecords(MaxStrLen))

\* whether to_document() succeeds: it decodes every text at every depth
RECURSIVE Decodes(_)
Decodes(b) ==
    LET es == Elements(b)
    IN  \A i \in 1..Len(es) :
            IF es[i].kind \in {TagDocument, TagArray}
            THEN Decodes(Value(b, es[i]).bytes)
            ELSE Value(b, es[i]).ok

\* to_document(): the ordered map a decodable buffer turns into, written back
\* in its one canonical form; a key met again replaces the value it had
RECURSIVE to_document(_, _)
to_document(b, is_array) ==
    LET es == Elements(b)
        decoded(e) ==
            [ key |-> e.key, kind |-> e.kind,
              enc |-> IF e.kind \in {TagDocument, TagArray}
                      THEN to_document(Value(b, e).bytes, e.kind = TagArray)
                      ELSE to_raw_bson(Value(b, e)) ]
        RECURSIVE insert(_)
        insert(i) ==
            IF i = 0 THEN <<>>
            ELSE LET prev == insert(i - 1)
                     hit == {j \in 1..Len(prev) : prev[j].key = es[i].key}
                 IN  IF hit = {} THEN Append(prev, decoded(es[i]))
                     ELSE [prev EXCEPT ![CHOOSE j \in hit : TRUE] = decoded(es[i])]
    IN  IF is_array THEN BuildArr([i \in 1..Len(es) |-> decoded(es[i])])
        ELSE BuildDoc(insert(Len(es)))

\* what main prints after fix_document returned Ok
CompareLines(raw, fixed) ==
    LET d == [line |-> "diff", key |-> <<>>, old |-> raw, new |-> fixed]
    IN  IF Decodes(raw) /\ Decodes(fixed)
        THEN IF to_document(raw, FALSE) # to_document(fixed, FALSE) THEN <<d>> ELSE <<>>
        ELSE IF Decodes(fixed) THEN <<>>
        ELSE << [d EXCEPT !.line = "debug", !.new = <<>>],
                [d EXCEPT !.line = "debug", !.old = <<>>] >>

\* the rest of the loop body: nothing is written back to the collection
Compare ==
    /\ pc = "compare"
    /\ out' = out \o CompareLines(raw_doc, new_raw_doc)
    /\ pc' = "next"
    /\ UNCHANGED <<cursor, confirm, raw_doc, stack, fix, new_raw_doc, writes, err>>

Next ==
    \/ NextRecord
    \/ CursorError
    \/ EmbeddedDocument
    \/ ReturnToDocument
    \/ ArrayElement
    \/ ArrayItemDocument
    \/ ReturnToArray
    \/ ArrayItemOther
    \/ ArrayDone
    \/ StringInvalid
    \/ Confirmation
    \/ CopyValue
    \/ ReturnToMain
    \/ Compare
    \/ Finish

Spec == Init /\ [][Next]_vars

\* the run over one record: of any shape, or one text field of any payload
InitWalk == Start(OneRecord(MaxNodes) \cup TextRecords(MaxStrLen))
SpecWalk == InitWalk /\ [][Next]_vars

----------------------------------------------------------------------------
(* fix_document as one call: the result of the whole walk when every prompt
   gets the same answer *)

Failed == [ok |-> FALSE, new_doc |-> EmptyDoc, repairs |-> 0]

RECURSIVE fix_document(_, _)
fix_document(doc, confirmation) ==
    LET es == Elements(doc)
        RECURSIVE start(_)
        start(i) == IF i = 1 THEN 0 ELSE NextStart(start(i - 1), es[i - 1].key, es[i - 1])
        RECURSIVE items(_, _)
        items(array, j) == \* the array loop after j items
            LET is == Elements(array) IN
            IF j = 0 THEN [ok |-> TRUE, new_doc |-> EmptyDoc, repairs |-> 0]
            ELSE LET r == items(array, j - 1)
                     item == Value(array, is[j])
                     sub == fix_document(item.bytes, confirmation)
                 IN  IF ~r.ok THEN r
                     ELSE IF is[j].kind = TagDocument
                     THEN IF sub.ok
                          THEN [r EXCEPT !.new_doc = push(@, TagDocument, sub.new_doc),
                                         !.repairs = @ + sub.repairs]
                          ELSE Failed
                     ELSE IF item.ok
                          THEN [r EXCEPT !.new_doc = push(@, item.kind, to_raw_bson(item))]
                          ELSE Failed
        RECURSIVE loop(_)
        loop(i) == \* the element loop after i elements
            IF i = 0 THEN [ok |-> TRUE, new_doc |-> EmptyDoc, repairs |-> 0]
            ELSE LET r == loop(i - 1)
                     e == es[i]
                     subdoc == get_document(doc, e.key)
                     sub == fix_document(subdoc.bytes, confirmation)
                     array == get_array(doc, e.key)
                     arr == items(array.bytes, Len(Elements(array.bytes)))
                     value == Value(doc, e)
                 IN  IF ~r.ok THEN r
                     ELSE IF e.kind = TagDocument
                     THEN IF subdoc.ok /\ sub.ok
                          THEN [r EXCEPT !.new_doc = append(@, TagDocument, e.key, sub.new_doc),
                                         !.repairs = @ + sub.repairs]
                          ELSE Failed
                     ELSE IF e.kind = TagArray
                     THEN IF array.ok /\ arr.ok
                          THEN [r EXCEPT !.new_doc = append(@, TagArray, e.key, arr.new_doc),
                                         !.repairs = @ + arr.repairs]
                          ELSE Failed
                     ELSE IF e.kind = TagString /\ ~value.ok
                     THEN IF FixStringRuns(doc, e.key, e, start(i))
                          THEN [r EXCEPT
                                  !.new_doc = append(@, TagString, e.key,
                                      StringValue(Chosen(FixLocals(doc, e.key, e, start(i)),
                                                         confirmation))),
                                  !.repairs = @ + 1]
                          ELSE Failed
                     ELSE [r EXCEPT !.new_doc = append(@, e.kind, e.key, to_raw_bson(value))]
    IN  loop(Len(es))

----------------------------------------------------------------------------
(* What the claims speak of *)

Sub(b, e) == Slice(b, e.start_at, e.start_at + e.size)     \* the value bytes of e
IsContainer(e) == e.kind \in {TagDocument, TagArray}
TextOf(b, e) == \* a text payload by its declared length
    Slice(b, e.start_at + 4, e.start_at + 4 + ReadI32(b, e.start_at) - 1)
TextFails(b, e) == e.kind = TagString /\ ~Utf8Valid(TextOf(b, e))

RECURSIVE AllTextValid(_)
AllTextValid(b) == \* no text element fails validation, at any depth
    \A i \in 1..Len(Elements(b)) :
        LET e == Elements(b)[i]
        IN  IF IsContainer(e) THEN AllTextValid(Sub(b, e)) ELSE ~TextFails(b, e)

RECURSIVE InvalidTextCount(_)
InvalidTextCount(b) == \* text elements that fail validation, at any depth
    LET es == Elements(b)
        one(e) == IF IsContainer(e) THEN InvalidTextCount(Sub(b, e))
                  ELSE IF TextFails(b, e) THEN 1 ELSE 0
        RECURSIVE sum(_)
        sum(i) == IF i = 0 THEN 0 ELSE one(es[i]) + sum(i - 1)
    IN  sum(Len(es))

RECURSIVE ArrayTextInvalid(_, _)
ArrayTextInvalid(b, is_array) == \* some array has an item that is text failing validation
    \E i \in 1..Len(Elements(b)) :
        LET e == Elements(b)[i]
        IN  IF IsContainer(e) THEN ArrayTextInvalid(Sub(b, e), e.kind = TagArray)
            ELSE is_array /\ TextFails(b, e)

RECURSIVE DuplicateKeys(_, _)
DuplicateKeys(b, is_array) == \* some document has two elements with one key
    LET es == Elements(b)
    IN  \/ ~is_array /\ \E i, j \in 1..Len(es) : i < j /\ es[i].key = es[j].key
        \/ \E i \in 1..Len(es) :
               IsContainer(es[i]) /\ DuplicateKeys(Sub(b, es[i]), es[i].kind = TagArray)

\* The document the rewrite is meant to build: every element in place with
\* its tag and key, every text that fails validation replaced (by the
\* candidate, by the lenient decoding, or blanked), all else as it was.
RECURSIVE Intended(_, _)
Intended(b, mode) ==
    LET es == Elements(b)
        text(e) == CASE mode = "blank" -> <<>>
                     [] ~TextFails(b, e) -> TextOf(b, e)
                     [] mode = "accept" -> Repair(TextOf(b, e))
                     [] OTHER -> from_utf8_lossy(TextOf(b, e))
    IN  BuildDoc([i \in 1..Len(es) |->
            [ key |-> es[i].key, kind |-> es[i].kind,
              enc |-> IF IsContainer(es[i]) THEN Intended(Sub(b, es[i]), mode)
                      ELSE IF es[i].kind = TagString THEN StringValue(text(es[i]))
                      ELSE Sub(b, es[i]) ] ])

RecordFailed == pc = "error" /\ err # "cursor"
Rewritten == pc = "compare"      \* fix_document has just returned Ok to main

\* The whole-call form of fix_document agrees with the walk (confirm off).
WalkAgrees ==
    /\ (Rewritten /\ ~confirm) =>
           fix_document(raw_doc, TRUE).ok /\ fix_document(raw_doc, TRUE).new_doc = new_raw_doc
    /\ RecordFailed => ~fix_document(raw_doc, TRUE).ok

----------------------------------------------------------------------------
(* C1 *)

\* C1: structural fidelity.  For every input document in which no text
\* element fails validation, at any depth and inside arrays too,
\* fix_document succeeds and the document it builds has exactly the bytes of
\* the input document.
C1_StructuralFidelity ==
    (raw_doc # <<>> /\ AllTextValid(raw_doc)) =>
        /\ ~RecordFailed
        /\ Rewritten => new_raw_doc = raw_doc

----------------------------------------------------------------------------
(* C2 *)

\* C2: locality of change.  For a document with exactly one text field that
\* fails validation, at any depth, the document built has every element in
\* place with its tag, key and encoding, and differs from the input only in
\* the value bytes of that field (the candidate, or the lenient decoding).
C2_LocalityOfChange ==
    (Rewritten /\ InvalidTextCount(raw_doc) = 1) =>
        new_raw_doc \in { Intended(raw_doc, "accept"), Intended(raw_doc, "decline") }

----------------------------------------------------------------------------
(* C3 *)

HighBytes == { 0, 4, 216, 220 }   \* high bytes a truncation may have dropped

UnitsOver(raw) == \* the 16-bit unit sequences whose low bytes are raw
    { [i \in 1..Len(raw) |-> raw[i] + 256 * h[i]] : h \in [1..Len(raw) -> HighBytes] }

RECURSIVE WellFormedUtf16(_)
WellFormedUtf16(us) == \* us encodes some text: every surrogate is paired
    IF us = <<>> THEN TRUE
    ELSE IF IsHighSurrogate(us[1])
    THEN Len(us) >= 2 /\ IsLowSurrogate(us[2]) /\ WellFormedUtf16(Tail(Tail(us)))
    ELSE ~IsLowSurrogate(us[1]) /\ WellFormedUtf16(Tail(us))

RECURSIVE Utf16CodePoints(_)
Utf16CodePoints(us) == \* the code points of well-formed us
    IF us = <<>> THEN <<>>
    ELSE IF IsHighSurrogate(us[1])
    THEN <<65536 + (us[1] - 55296) * 1024 + (us[2] - 56320)>> \o Utf16CodePoints(Tail(Tail(us)))
    ELSE <<us[1]>> \o Utf16CodePoints(Tail(us))

RECURSIVE Utf8CodePoints(_)
Utf8CodePoints(s) == \* the code points of valid UTF-8 s
    IF s = <<>> THEN <<>>
    ELSE LET n == Utf8Chunk(s, 1).len
             cp == CASE n = 1 -> s[1]
                     [] n = 2 -> (s[1] - 192) * 64 + (s[2] - 128)
                     [] n = 3 -> (s[1] - 224) * 4096 + (s[2] - 128) * 64 + (s[3] - 128)
                     [] OTHER -> (s[1] - 240) * 262144 + (s[2] - 128) * 4096
                                     + (s[3] - 128) * 64 + (s[4] - 128)
         IN  <<cp>> \o Utf8CodePoints(SubSeq(s, n + 1, Len(s)))

\* C3 as claimed: for every sequence of 16-bit code units that encodes some
\* text and whose low bytes are the raw bytes given to the repair step, the
\* candidate has exactly the code points of that text.
C3_RepairRecoversAnyUnits ==
    pc = "confirm" =>
        \A us \in UnitsOver(fix.raw_value) :
            WellFormedUtf16(us) =>
                Utf8Valid(fix.new_value_utf8)
                    /\ Utf8CodePoints(fix.new_value_utf8) = Utf16CodePoints(us)

\* C3 as amended: the same, for the code unit sequences in which every unit
\* is at most 0x00FF, so that the truncation dropped only zero high bytes.
C3_RepairRecoversLowUnits ==
    pc = "confirm" =>
        \A us \in UnitsOver(fix.raw_value) :
            (WellFormedUtf16(us) /\ \A i \in 1..Len(us) : us[i] <= 255) =>
                Utf8Valid(fix.new_value_utf8)
                    /\ Utf8CodePoints(fix.new_value_utf8) = Utf16CodePoints(us)

\* the repair step runs on the bytes 0xC1 0xEE and its candidate is "Áî"
C3_Witness ==
    /\ pc = "confirm"
    /\ fix.raw_value = <<193, 238>>
    /\ fix.new_value_utf8 = <<195, 129, 195, 174>>

----------------------------------------------------------------------------
(* C4 *)

\* C4: array text items are repaired like top-level text fields.  When an
\* array has an item that is text failing validation, the rewrite of the
\* document succeeds and the rebuilt array holds the repaired text there.
C4_ArrayTextRepaired ==
    (raw_doc # <<>> /\ ArrayTextInvalid(raw_doc, FALSE)) =>
        /\ ~RecordFailed
        /\ (Rewritten /\ ~confirm) => new_raw_doc = Intended(raw_doc, "accept")

----------------------------------------------------------------------------
(* C5 *)

\* C5: idempotence.  Whenever fix_document succeeds with output D1, every
\* text element of D1 validates, and fix_document on D1 succeeds, makes no
\* repair and builds a document identical to D1.
C5_Idempotence ==
    Rewritten =>
        /\ AllTextValid(new_raw_doc)
        /\ fix_document(new_raw_doc, TRUE) =
               [ok |-> TRUE, new_doc |-> new_raw_doc, repairs |-> 0]

----------------------------------------------------------------------------
(* C6 *)

AppendedText(st) == \* the text payload of the element the top frame appended last
    LET nd == st[Len(st)].new_doc
        es == Elements(nd)
    IN  TextOf(nd, es[Len(es)])

\* a step of Confirmation in which the answer was no: nothing is printed
Declined == pc = "confirm" /\ confirm /\ pc' = "walk" /\ out' = out

\* C6: decline-safe fallback.  Whenever the candidate is rejected at the prompt,
\* the value appended for the field is the original bytes decoded leniently,
\* it validates as text, and it is not the original invalid bytes.
C6_DeclineSafe ==
    [][ Declined =>
          /\ Elements(stack'[Len(stack')].new_doc)
                 [Len(Elements(stack'[Len(stack')].new_doc))].kind = TagString
          /\ AppendedText(stack') = fix.old_value_utf8
          /\ Utf8Valid(AppendedText(stack'))
          /\ AppendedText(stack') # fix.raw_value ]_vars

HasReplacement(s) == \E i \in 1..Len(s) - 2 : SubSeq(s, i, i + 2) = Replacement

\* a rejected candidate: confirm is on and the text just appended holds U+FFFD
C6_Witness ==
    /\ pc = "walk"
    /\ confirm
    /\ stack # <<>>
    /\ Top.kind = "doc"
    /\ Elements(Top.new_doc) # <<>>
    /\ Elements(Top.new_doc)[Len(Elements(Top.new_doc))].kind = TagString
    /\ HasReplacement(AppendedText(stack))

----------------------------------------------------------------------------
(* C7 *)

\* C7: record-local errors do not stop the stream.  The run never ends,
\* with records still to come from the cursor, because fix_document failed
\* on one record; only an error of the cursor ends it.
C7_RecordErrorsDoNotStop == (pc = "error" /\ cursor # <<>>) => err = "cursor"

----------------------------------------------------------------------------
(* C8 *)

AcceptedRepair == \* a prompt line was printed since the last record identity line
    \E j \in 1..Len(out) :
        /\ out[j].line = "prompt"
        /\ \E i \in 1..j : out[i].line = "id" /\ \A k \in i + 1..Len(out) : out[k].line # "id"

\* C8: write-back.  When the loop has finished a record whose rewrite
\* accepted at least one repair, it has issued a replace of that record with
\* the rebuilt document.
C8_WriteBack ==
    (pc \in {"next", "done"} /\ raw_doc # <<>> /\ AcceptedRepair) =>
        /\ writes # <<>>
        /\ writes[Len(writes)] = new_raw_doc

----------------------------------------------------------------------------
(* C9 *)

\* C9: duplicate keys pass through unchanged.  For a document in which
\* elements share a key, the rewrite succeeds and each element of the
\* document built has the value of the input element at the same position,
\* text payloads aside.
C9_DuplicateKeysPassThrough ==
    (raw_doc # <<>> /\ DuplicateKeys(raw_doc, FALSE) /\ ~ArrayTextInvalid(raw_doc, FALSE)) =>
        /\ ~RecordFailed
        /\ Rewritten => Intended(new_raw_doc, "blank") = Intended(raw_doc, "blank")

----------------------------------------------------------------------------
(* C10 *)

FormatKey(b, off) == \* the key of the element whose tag is at off
    SubSeq(b, off + 2, off + 1 + CStrLen(b, off + 1))

FormatText(b, off) == \* its text payload: after the 4-byte prefix, without the terminator
    LET v == off + 1 + CStrLen(b, off + 1) + 1
    IN  SubSeq(b, v + 4 + 1, v + 4 + ReadI32(b, v) - 1)

\* C10: cursor and span.  In every fix_document frame 4 + start is the offset
\* of the current element's type tag (of the terminator once the loop is
\* over); the bytes fix_string slices as raw_key are the element's key and
\* those it slices as raw_value are its text payload, and no slice or
\* assertion of fix_string fails.
C10_CursorAndSpan ==
    /\ \A i \in 1..Len(stack) :
           stack[i].kind = "doc" =>
               /\ 4 + stack[i].start = stack[i].off
               /\ 4 + stack[i].start < Len(stack[i].doc)
               /\ At(stack[i].doc, 4 + stack[i].start)
                      \in (IF 4 + stack[i].start = Len(stack[i].doc) - 1 THEN {0}
                           ELSE {TagString, TagDocument, TagArray, TagInt32})
    /\ pc = "confirm" =>
           /\ At(Top.doc, 4 + Top.start) = TagString
           /\ fix.raw_key = FormatKey(Top.doc, 4 + Top.start)
           /\ fix.raw_value = FormatText(Top.doc, 4 + Top.start)
    /\ ~(pc = "error" /\ err = "panic")

\* fix_string runs on the text 0xC1 0xEE that follows an embedded document or
\* an array in its document
C10_Witness ==
    /\ pc = "confirm"
    /\ Top.start > 0
    /\ At(Top.doc, 4) \in {TagArray, TagDocument}
    /\ fix.raw_value = <<193, 238>>

====
